---- MODULE Spec2Model ----
(***************************************************************************)
(* A model of src/banquet.py: the Banquet Table constrained clustering.    *)
(*                                                                         *)
(* Feature vectors have one axis and are integers counted in half units    *)
(* (position 0.5 is 1, threshold d = 1 is 2): the Euclidean norm over one  *)
(* axis is the absolute difference.  The DBSCAN radius eps and its         *)
(* decrement are integers counted in a common grid unit.  The clustering   *)
(* primitive (ivpy.cluster.cluster) is external: a call returns any        *)
(* labelling of the points it is given.                                    *)
(***************************************************************************)
EXTENDS Integers, FiniteSets, Sequences, TLC

VARIABLES
    collection_frame,      \* attendee id -> position           (argument)
    reference_frame,       \* guest id -> position              (argument)
    d,                     \* guest distance threshold          (argument)
    eps0,                  \* the eps argument as passed by the caller
    eps_increment,         \* the eps_increment argument
    prim,                  \* behaviour of the external clustering primitive
    pc,                    \* "start", "searching", "called", "accepted", "done"
    eps,                   \* the local eps, decremented by the loop
    guest_lists,           \* banquet.py:85
    allowable_tablemates_lists, \* banquet.py:86
    lonelies,              \* banquet.py:88
    outsiders,             \* banquet.py:89
    attendees,             \* banquet.py:90
    tabling,               \* banquet.py:94, the labelling of the last call
    radii,                 \* the eps of every call of the primitive, in order
    tabling_with_lonelies_and_outsiders, \* banquet.py:99-102
    metrics,               \* banquet.py:108-118
    cluster_args,          \* the arguments of the last call of the primitive
    mf,                    \* find_inflection_points: the metrics frame
    diff_threshold,        \* find_inflection_points: the argument
    inflection_points      \* find_inflection_points: the returned list

vars == <<collection_frame, reference_frame, d, eps0, eps_increment, prim, pc,
          eps, guest_lists, allowable_tablemates_lists, lonelies, outsiders,
          attendees, tabling, radii, tabling_with_lonelies_and_outsiders,
          metrics, cluster_args, mf, diff_threshold, inflection_points>>

sweep == <<mf, diff_threshold, inflection_points>>

inputs == <<collection_frame, reference_frame, d, eps0, eps_increment, prim>>

prepared == <<guest_lists, allowable_tablemates_lists, lonelies, outsiders,
              attendees>>

----------------------------------------------------------------------------
(* Bounds of the model. *)

MaxD == 4               \* thresholds 0..MaxD of the preparation specification
MaxLabel == 1           \* the primitive's cluster ids are 0..MaxLabel
MaxCalls == 4           \* cap on the calls of the primitive in one search
MaxStep == 2            \* eps_increment is 0..MaxStep

AttendeeIds == {1, 2, 3}          \* the collection of the search specification
WideAttendeeIds == {1, 2, 3, 4}   \* and of the preparation specification
AttendeePositions == {0, 2, 4}
WidePositions == {0, 2, 4, 20}
GuestPositions == <<1, 3, 5>>
WideGuestPositions == <<1, 3, 19, 5>>
SearchThresholds == {0, 2, 4}     \* thresholds of the search specification
StartRadii == {2, 3}
NoiseBounds == {0, 1}

NOISE == -1

Labels == {NOISE} \cup (0 .. MaxLabel)

WideLabels == {NOISE} \cup (0 .. MaxLabel + 1)   \* of the metrics specification

----------------------------------------------------------------------------
(* Numbers: Python/numpy quotients as fractions in lowest terms.  A zero   *)
(* denominator is numpy's nan (0/0).  The operators bind their arguments   *)
(* before use (x \in {e}), so that an argument is evaluated once.          *)

Abs(x) == IF x < 0 THEN -x ELSE x

RECURSIVE Gcd(_, _)
Gcd(a, b) == IF b = 0 THEN a ELSE Gcd(b, a % b)

NaN == [num |-> 0, den |-> 0]

Zero == [num |-> 0, den |-> 1]

Rat(n, m) ==
    CHOOSE r \in
        {IF b = 0 THEN NaN
         ELSE IF b < 0 THEN [num |-> (-a) \div g, den |-> (-b) \div g]
         ELSE [num |-> a \div g, den |-> b \div g] :
            <<a, b, g>> \in {<<n, m, Gcd(Abs(n), Abs(m))>>}} : TRUE

IsNaN(x) == x.den = 0

RatAdd(x, y) ==
    CHOOSE r \in
        {IF IsNaN(a) \/ IsNaN(b) THEN NaN
         ELSE Rat(a.num * b.den + b.num * a.den, a.den * b.den) :
            a \in {x}, b \in {y}} : TRUE

RatSub(x, y) ==
    CHOOSE r \in
        {IF IsNaN(a) \/ IsNaN(b) THEN NaN
         ELSE Rat(a.num * b.den - b.num * a.den, a.den * b.den) :
            a \in {x}, b \in {y}} : TRUE

RatDivInt(x, n) ==
    CHOOSE r \in
        {IF IsNaN(a) \/ k = 0 THEN NaN ELSE Rat(a.num, a.den * k) :
            a \in {x}, k \in {n}} : TRUE

RatLeq(x, y) == ~IsNaN(x) /\ ~IsNaN(y) /\ x.num * y.den <= y.num * x.den

\* the sum of the values of f
RECURSIVE RatSum(_)
RatSum(f) ==
    IF DOMAIN f = {} THEN Zero
    ELSE CHOOSE r \in
             {RatAdd(g[x], RatSum([y \in (DOMAIN g) \ {x} |-> g[y]])) :
                 <<g, x>> \in {<<f, CHOOSE y \in DOMAIN f : TRUE>>}} : TRUE

\* np.mean of the list of the values of f: nan for an empty list
NpMean(f) == RatDivInt(RatSum(f), Cardinality(DOMAIN f))

----------------------------------------------------------------------------
(* get_guest_lists, banquet.py:27-36 *)

Distances(cf, rf) ==
    [a \in DOMAIN cf |-> [g \in DOMAIN rf |-> Abs(cf[a] - rf[g])]]

GetGuestLists_Boundary(cf, rf, dd) ==
    LET distances == Distances(cf, rf)
    IN  [a \in DOMAIN cf |-> {g \in DOMAIN rf : distances[a][g] <= dd}]

GetGuestLists(cf, rf, dd) ==
    LET distances == Distances(cf, rf)
    IN  [a \in DOMAIN cf |-> {g \in DOMAIN rf : distances[a][g] < dd}]

(* get_allowable_tablemates_lists, banquet.py:38-55 *)

GetAllowableTablematesLists_Self(gl) ==
    [collection_idx \in DOMAIN gl |->
        {idx \in DOMAIN gl : (gl[collection_idx] \cap gl[idx]) # {}}]

GetAllowableTablematesLists(gl) ==
    [collection_idx \in DOMAIN gl |->
        {idx \in DOMAIN gl : idx # collection_idx
                             /\ (gl[collection_idx] \cap gl[idx]) # {}}]

(* is_tabling_allowable, banquet.py:57-76 *)

Tables(t) == {t[a] : a \in DOMAIN t}

TableMembers(t, table) == {a \in DOMAIN t : t[a] = table}

IsTablingAllowable_Any(t, atl) ==
    LET tables == Tables(t) \ {NOISE}
    IN  \A table \in tables :
            LET table_members_set == TableMembers(t, table)
            IN  \A member \in table_members_set :
                    \/ table_members_set \ {member} = {}
                    \/ ((table_members_set \ {member}) \cap atl[member]) # {}

IsTablingAllowable_Noise(t, atl) ==
    LET tables == Tables(t)
    IN  \A table \in tables :
            LET table_members_set == TableMembers(t, table)
            IN  \A member \in table_members_set :
                    (table_members_set \ {member}) \subseteq atl[member]

IsTablingAllowable(t, atl) ==
    LET tables == Tables(t) \ {NOISE}
    IN  \A table \in tables :
            LET table_members_set == TableMembers(t, table)
            IN  \A member \in table_members_set :
                    (table_members_set \ {member}) \subseteq atl[member]

(* the classification of banquet_tabling, banquet.py:88-90 *)

Lonelies(gl) == {a \in DOMAIN gl : Cardinality(gl[a]) = 0}

Outsiders_Overlap(gl, atl) == {a \in DOMAIN atl : Cardinality(atl[a]) = 0}

Outsiders(gl, atl) ==
    {a \in DOMAIN atl : Cardinality(atl[a]) = 0} \ Lonelies(gl)

Attendees(cf, gl, atl) == (DOMAIN cf) \ (Lonelies(gl) \cup Outsiders(gl, atl))

----------------------------------------------------------------------------
(* The labels of the returned Series (dtype=object): an integer label of   *)
(* the primitive, one of the two strings, or the NaN a fresh Series holds. *)

Unset == [kind |-> "nan", id |-> 0]

Lonely == [kind |-> "lonely", id |-> 0]

Outsider == [kind |-> "outsider", id |-> 0]

IntLabel(n) == [kind |-> "int", id |-> n]

(* banquet.py:99-102: three assignments into a fresh Series, in this order *)

TablingWithLoneliesAndOutsiders_Paste(cf, t, att, lon, out) ==
    LET s0 == [a \in DOMAIN cf |-> Unset]
        s1 == [a \in DOMAIN cf |->
                  IF a \in att /\ a \in DOMAIN t THEN IntLabel(t[a]) ELSE s0[a]]
        s2 == [a \in DOMAIN cf |-> IF a \in lon THEN Outsider ELSE s1[a]]
    IN  [a \in DOMAIN cf |-> IF a \in out THEN Outsider ELSE s2[a]]

TablingWithLoneliesAndOutsiders(cf, t, att, lon, out) ==
    LET s0 == [a \in DOMAIN cf |-> Unset]
        s1 == [a \in DOMAIN cf |->
                  IF a \in att /\ a \in DOMAIN t THEN IntLabel(t[a]) ELSE s0[a]]
        s2 == [a \in DOMAIN cf |-> IF a \in lon THEN Lonely ELSE s1[a]]
    IN  [a \in DOMAIN cf |-> IF a \in out THEN Outsider ELSE s2[a]]

----------------------------------------------------------------------------
(* The metrics, banquet.py:104-275 *)

\* banquet.py:104, tabling.loc[tabling != -1]
MetricTabling(t) == [a \in {b \in DOMAIN t : t[b] # NOISE} |-> t[a]]

\* compute_tableable_percentage, banquet.py:124-127
ComputeTableablePercentage(full) ==
    LET total == Cardinality(DOMAIN full)
        lonelies_and_outsiders ==
            Cardinality({a \in DOMAIN full : full[a] = Lonely})
            + Cardinality({a \in DOMAIN full : full[a] = Outsider})
    IN  Rat(total - lonelies_and_outsiders, total)

\* compute_noise_percentage, banquet.py:129-130
ComputeNoisePercentage(t) ==
    Rat(Cardinality({a \in DOMAIN t : t[a] = NOISE}), Cardinality(DOMAIN t))

\* the deduplicated guests of one table: set.union(*[set(guest_lists[m]) ...])
TableGuestSet(t, gl, table) == UNION {gl[m] : m \in TableMembers(t, table)}

\* `x / y if y else 0`
RatioOrZero(n, m) == IF m # 0 THEN Rat(n, m) ELSE Zero

\* intra_table_sharing_ratio, banquet.py:134-155: value_counts over the
\* concatenated guest lists of a table's members
IntraRatio(t, gl, table) ==
    LET table_members == TableMembers(t, table)
        guest_counts == [g \in UNION {gl[m] : m \in table_members} |->
                            Cardinality({m \in table_members : g \in gl[m]})]
        total_guests == Cardinality(DOMAIN guest_counts)
        shared_guests ==
            Cardinality({g \in DOMAIN guest_counts : guest_counts[g] > 1})
    IN  RatioOrZero(shared_guests, total_guests)

IntraTableSharingRatio(t, gl) ==
    LET tables == Tables(t)
    IN  NpMean([table \in tables |-> IntraRatio(t, gl, table)])

\* inter_table_sharing_ratio, banquet.py:157-180
InterTableSharingRatio(t, gl) ==
    LET tables == Tables(t)
        guest_counts ==
            [g \in UNION {TableGuestSet(t, gl, table) : table \in tables} |->
                Cardinality({table \in tables : g \in TableGuestSet(t, gl, table)})]
        total_guests == Cardinality(DOMAIN guest_counts)
        shared_guests ==
            Cardinality({g \in DOMAIN guest_counts : guest_counts[g] > 1})
    IN  RatioOrZero(shared_guests, total_guests)

\* guest_sharing_differential, banquet.py:182-188
GuestSharingDifferential(intra, inter) == RatSub(intra, inter)

\* the pairs i < j of the two nested loops
TablePairs(tables) == {p \in SUBSET tables : Cardinality(p) = 2}

Min_Larger(x, y) == IF x <= y THEN y ELSE x

Min(x, y) == IF x <= y THEN x ELSE y

\* overlap_coefficient, banquet.py:190-214.  A table's guest set is never
\* empty (its members have guests), so min_size is positive.
OverlapCoefficient(t, gl) ==
    LET pairs == TablePairs(Tables(t))
        coefficient(p) ==
            LET i == CHOOSE x \in p : TRUE
                j == CHOOSE x \in p : x # i
                A == TableGuestSet(t, gl, i)
                B == TableGuestSet(t, gl, j)
            IN  Rat(Cardinality(A \cap B), Min(Cardinality(A), Cardinality(B)))
    IN  NpMean([p \in pairs |-> coefficient(p)])

\* jaccard_index, banquet.py:216-240
JaccardIndex(t, gl) ==
    LET pairs == TablePairs(Tables(t))
        index(p) ==
            LET i == CHOOSE x \in p : TRUE
                j == CHOOSE x \in p : x # i
                A == TableGuestSet(t, gl, i)
                B == TableGuestSet(t, gl, j)
            IN  Rat(Cardinality(A \cap B), Cardinality(A \cup B))
    IN  NpMean([p \in pairs |-> index(p)])

\* unique_vs_shared_guests, banquet.py:242-275
UniqueVsSharedGuests(t, gl) ==
    LET tables == Tables(t)
        all_guests == UNION {TableGuestSet(t, gl, table) : table \in tables}
        guest_occurrences ==
            [g \in all_guests |->
                Cardinality({table \in tables : g \in TableGuestSet(t, gl, table)})]
        shared_guests == {g \in all_guests : guest_occurrences[g] > 1}
    IN  RatioOrZero(Cardinality(shared_guests), Cardinality(all_guests))

\* banquet.py:104-118
Metrics(dd, full, t, gl) ==
    LET metric_tabling == MetricTabling(t)
        intra == IntraTableSharingRatio(metric_tabling, gl)
        inter == InterTableSharingRatio(metric_tabling, gl)
    IN  [d |-> dd,
         tableable_percentage |-> ComputeTableablePercentage(full),
         noise_percentage |-> ComputeNoisePercentage(t),
         intra_table_sharing_ratio |-> intra,
         inter_table_sharing_ratio |-> inter,
         guest_sharing_differential |-> GuestSharingDifferential(intra, inter),
         overlap_coefficient |-> OverlapCoefficient(metric_tabling, gl),
         jaccard_index |-> JaccardIndex(metric_tabling, gl),
         unique_vs_shared_guests |-> UniqueVsSharedGuests(metric_tabling, gl)]

----------------------------------------------------------------------------
(* The external clustering primitive, banquet.py:94: one label per point   *)
(* submitted.  prim.bounded says that it labels every point noise at every *)
(* radius at or below prim.below; otherwise any labelling may come back.   *)

Unbounded == [bounded |-> FALSE, below |-> 0, labels |-> Labels]

Primitives ==
    {Unbounded}
    \cup {[bounded |-> TRUE, below |-> b, labels |-> Labels] : b \in NoiseBounds}

AllNoise(t) == \A a \in DOMAIN t : t[a] = NOISE

Cluster(points, radius, p) ==
    {t \in [points -> p.labels] : (p.bounded /\ radius <= p.below) => AllNoise(t)}

\* collection_frame[feature_columns].loc[attendees], banquet.py:94
ClusterPoints_All(cf, att) == cf

ClusterPoints(cf, att) == [a \in att |-> cf[a]]

MinSamples == 2

\* eps -= eps_increment, banquet.py:97
NextEps_Unit(e, step) == e - 1

NextEps_Stuck(e, step) == e

NextEps(e, step) == e - step

----------------------------------------------------------------------------
(* banquet_tabling, banquet.py:78-120 *)

None == <<>>

Frames(positions) ==
    {[g \in S |-> positions[g]] : S \in SUBSET (DOMAIN positions)}

Unstarted ==
    /\ pc = "start"
    /\ eps = eps0
    /\ guest_lists = None
    /\ allowable_tablemates_lists = None
    /\ lonelies = {}
    /\ outsiders = {}
    /\ attendees = {}
    /\ tabling = None
    /\ radii = <<>>
    /\ tabling_with_lonelies_and_outsiders = None
    /\ metrics = None
    /\ cluster_args = None
    /\ mf = <<>>
    /\ diff_threshold = Zero
    /\ inflection_points = <<>>

Init ==
    /\ collection_frame \in [AttendeeIds -> AttendeePositions]
    /\ reference_frame \in Frames(GuestPositions)
    /\ d \in SearchThresholds
    /\ eps0 \in StartRadii
    /\ eps_increment \in 0 .. MaxStep
    /\ prim \in Primitives
    /\ Unstarted

\* banquet.py:85-90
Prepare ==
    /\ pc = "start"
    /\ guest_lists' = GetGuestLists(collection_frame, reference_frame, d)
    /\ allowable_tablemates_lists' = GetAllowableTablematesLists(guest_lists')
    /\ lonelies' = Lonelies(guest_lists')
    /\ outsiders' = Outsiders(guest_lists', allowable_tablemates_lists')
    /\ attendees' = Attendees(collection_frame, guest_lists',
                              allowable_tablemates_lists')
    /\ pc' = "searching"
    /\ UNCHANGED <<inputs, sweep, eps, tabling, radii, cluster_args,
                   tabling_with_lonelies_and_outsiders, metrics>>

\* banquet.py:94
ClusterCall ==
    /\ pc = "searching"
    /\ LET points == ClusterPoints(collection_frame, attendees)
       IN  /\ cluster_args' = [points |-> points, method |-> "dbscan",
                                eps |-> eps, min_samples |-> MinSamples]
           /\ tabling' \in Cluster(DOMAIN points, eps, prim)
    /\ radii' = Append(radii, eps)
    /\ pc' = "called"
    /\ UNCHANGED <<inputs, sweep, prepared, eps,
                   tabling_with_lonelies_and_outsiders, metrics>>

\* banquet.py:95-97, the labelling is not allowable
Reject ==
    /\ pc = "called"
    /\ ~IsTablingAllowable(tabling, allowable_tablemates_lists)
    /\ Len(radii) < MaxCalls
    /\ eps' = NextEps(eps, eps_increment)
    /\ pc' = "searching"
    /\ UNCHANGED <<inputs, sweep, prepared, tabling, radii, cluster_args,
                   tabling_with_lonelies_and_outsiders, metrics>>

\* banquet.py:95-96, the labelling is allowable: the loop is left
Accept ==
    /\ pc = "called"
    /\ IsTablingAllowable(tabling, allowable_tablemates_lists)
    /\ pc' = "accepted"
    /\ UNCHANGED <<inputs, sweep, prepared, eps, tabling, radii, cluster_args,
                   tabling_with_lonelies_and_outsiders, metrics>>

\* banquet.py:99-120, the Tabling and the metrics record are returned
Return ==
    /\ pc = "accepted"
    /\ LET full == TablingWithLoneliesAndOutsiders(collection_frame, tabling,
                                                   attendees, lonelies, outsiders)
       IN  /\ tabling_with_lonelies_and_outsiders' = full
           /\ metrics' = Metrics(d, full, tabling, guest_lists)
    /\ pc' = "done"
    /\ UNCHANGED <<inputs, sweep, prepared, eps, tabling, radii, cluster_args>>

\* the steps up to the end of the search loop
Search == Prepare \/ ClusterCall \/ Reject \/ Accept

Next == Prepare \/ ClusterCall \/ Reject \/ Accept \/ Return

Spec == Init /\ [][Next]_vars

(* The search alone, for termination: the whole reference set, thresholds  *)
(* that leave attendees to cluster.  The function runs to completion       *)
(* (single-threaded, no suspension): an enabled step of the search is      *)
(* eventually taken.                                                       *)

LiveThresholds == {2, 4}

LiveInit ==
    /\ collection_frame \in [AttendeeIds -> AttendeePositions]
    /\ reference_frame = [g \in DOMAIN GuestPositions |-> GuestPositions[g]]
    /\ d \in LiveThresholds
    /\ eps0 \in StartRadii
    /\ eps_increment \in 0 .. MaxStep
    /\ prim \in Primitives
    /\ Unstarted

FairSpec == LiveInit /\ [][Next]_vars /\ WF_vars(Search)

(* get_guest_lists, get_allowable_tablemates_lists and the classification  *)
(* on wider inputs                                                         *)

PrepInit ==
    /\ collection_frame \in [WideAttendeeIds -> WidePositions]
    /\ reference_frame \in Frames(WideGuestPositions)
    /\ d \in 0 .. MaxD
    /\ eps0 \in StartRadii
    /\ eps_increment = MaxStep
    /\ prim = Unbounded
    /\ Unstarted

PrepSpec == PrepInit /\ [][Prepare]_vars

(* The search over four attendees, one of them far from the others: with   *)
(* guest 3 in the reference set it is an outsider, without it a lonely.    *)

FarGuest == 3
FarPosition == 20

CallsInit ==
    /\ collection_frame \in
           {[a \in WideAttendeeIds |->
                IF a \in AttendeeIds THEN f[a] ELSE FarPosition] :
               f \in [AttendeeIds -> AttendeePositions]}
    /\ reference_frame \in
           {[g \in S |-> WideGuestPositions[g]] :
               S \in {DOMAIN WideGuestPositions,
                      DOMAIN WideGuestPositions \ {FarGuest}}}
    /\ d \in LiveThresholds
    /\ eps0 \in StartRadii
    /\ eps_increment = MaxStep
    /\ prim = Unbounded
    /\ Unstarted

CallsSpec == CallsInit /\ [][Next]_vars

(* The metrics of a search whose primitive may form three tables: the      *)
(* whole reference set, one starting radius.                               *)

MetricsInit ==
    /\ collection_frame \in [AttendeeIds -> AttendeePositions]
    /\ reference_frame = [g \in DOMAIN GuestPositions |-> GuestPositions[g]]
    /\ d \in LiveThresholds
    /\ eps0 \in StartRadii
    /\ eps_increment = MaxStep
    /\ prim = [bounded |-> FALSE, below |-> 0, labels |-> WideLabels]
    /\ Unstarted

MetricsSpec == MetricsInit /\ [][Next]_vars

----------------------------------------------------------------------------
(* find_inflection_points, banquet.py:281-295.  A row of mf is a record:   *)
(* d, counted in quarters of 0.001, and one cell per metric column, an     *)
(* integer or nan.  The returned d values are counted in units of 0.001.   *)

MaxValue == 2           \* the cells are 0..MaxValue or nan
MaxThreshold == 1       \* diff_threshold is 0..MaxThreshold

RowIds == {1, 2, 3}
SweepThresholds == {4, 5, 8, 12}  \* the d of a row: 0.001, 0.00125, 0.002, 0.003

\* the columns of mf other than 'd', in the order of mf.columns
MetricColumns == <<"noise_percentage", "overlap_coefficient">>

Cells == {NaN} \cup {[num |-> k, den |-> 1] : k \in 0 .. MaxValue}

\* round(x, 3), to the nearest 0.001 and to the even one of two equally near
Round3(q) ==
    LET base == q \div 4
        rest == q % 4
    IN  IF rest < 2 THEN base
        ELSE IF rest > 2 THEN base + 1
        ELSE IF base % 2 = 0 THEN base ELSE base + 1

\* x - y > thr; a comparison with nan is False
Exceeds(x, y, thr) ==
    LET diff == RatSub(x, y)
    IN  ~IsNaN(diff) /\ ~IsNaN(thr) /\ ~RatLeq(diff, thr)

\* the inner loop of banquet.py:289-292 for one column
ColumnFlags(m, col, thr) ==
    LET rows == [i \in 1 .. (Len(m) - 1) |-> i + 1]
        Jumps(i) == Exceeds(m[i][col], m[i - 1][col], thr)
        hits == SelectSeq(rows, Jumps)
    IN  [k \in 1 .. Len(hits) |-> Round3(m[hits[k]].d)]

\* the outer loop of banquet.py:288
RECURSIVE AllFlags(_, _, _)
AllFlags(m, cols, thr) ==
    IF cols = <<>> THEN <<>>
    ELSE ColumnFlags(m, Head(cols), thr) \o AllFlags(m, Tail(cols), thr)

Count(seq, item) == Cardinality({k \in 1 .. Len(seq) : seq[k] = item})

FindInflectionPoints_Any(m, thr) ==
    LET inflection == AllFlags(m, MetricColumns, thr)
        Kept(item) == Count(inflection, item) > 0
    IN  SelectSeq(inflection, Kept)

FindInflectionPoints(m, thr) ==
    LET inflection == AllFlags(m, MetricColumns, thr)
        Kept(item) == Count(inflection, item) > 1
    IN  SelectSeq(inflection, Kept)

\* the frames of a sweep have their rows sorted by ascending d
SweepInit ==
    /\ mf \in {m \in [RowIds ->
                   [d : SweepThresholds,
                    noise_percentage : Cells,
                    overlap_coefficient : Cells]] :
                  \A i, j \in RowIds : i < j => m[i].d <= m[j].d}
    /\ diff_threshold \in {[num |-> k, den |-> 1] : k \in 0 .. MaxThreshold}
    /\ inflection_points = <<>>
    /\ pc = "sweep"
    /\ collection_frame = <<>>
    /\ reference_frame = <<>>
    /\ d = 0
    /\ eps0 = 0
    /\ eps_increment = 0
    /\ prim = Unbounded
    /\ eps = eps0
    /\ guest_lists = None
    /\ allowable_tablemates_lists = None
    /\ lonelies = {}
    /\ outsiders = {}
    /\ attendees = {}
    /\ tabling = None
    /\ radii = <<>>
    /\ tabling_with_lonelies_and_outsiders = None
    /\ metrics = None
    /\ cluster_args = None

Analyse ==
    /\ pc = "sweep"
    /\ inflection_points' = FindInflectionPoints(mf, diff_threshold)
    /\ pc' = "analysed"
    /\ UNCHANGED <<inputs, prepared, eps, tabling, radii, cluster_args,
                   tabling_with_lonelies_and_outsiders, metrics, mf,
                   diff_threshold>>

SweepSpec == SweepInit /\ [][Analyse]_vars

----------------------------------------------------------------------------
(* Properties *)

\* guest g is nearer than d to attendee a
Near(a, g) ==
    /\ collection_frame[a] - reference_frame[g] < d
    /\ reference_frame[g] - collection_frame[a] < d

GuestsOf(a) == {g \in DOMAIN reference_frame : Near(a, g)}

\* the non-noise tables of the returned Tabling
SameTable(a, b) ==
    /\ tabling_with_lonelies_and_outsiders[a].kind = "int"
    /\ tabling_with_lonelies_and_outsiders[b].kind = "int"
    /\ tabling_with_lonelies_and_outsiders[a].id # NOISE
    /\ tabling_with_lonelies_and_outsiders[a].id
           = tabling_with_lonelies_and_outsiders[b].id

\* C1: in an accepted Tabling any two distinct attendees of the same
\* non-noise table have at least one guest in common.
C1_AcceptedTablematesShareAGuest ==
    /\ pc \in {"accepted", "done"} =>
           \A a, b \in DOMAIN tabling :
               (a # b /\ tabling[a] = tabling[b] /\ tabling[a] # NOISE)
                   => (GuestsOf(a) \cap GuestsOf(b)) # {}
    /\ pc = "done" =>
           \A a, b \in DOMAIN tabling_with_lonelies_and_outsiders :
               (a # b /\ SameTable(a, b)) => (GuestsOf(a) \cap GuestsOf(b)) # {}

\* a table of two or more was accepted after at least one rejection
C1_Witness ==
    /\ pc = "done"
    /\ Len(radii) > 1
    /\ \E a, b \in DOMAIN tabling_with_lonelies_and_outsiders :
           a # b /\ SameTable(a, b)

\* every non-noise label's members are pairwise adjacent
IsCliqueLabelling(t, adj) ==
    \A a, b \in DOMAIN t :
        (a # b /\ t[a] = t[b] /\ t[a] # NOISE) => (b \in adj[a] /\ a \in adj[b])

PathGraph == <<{2}, {1, 3}, {2}>>

\* C2: is_tabling_allowable is True iff every non-noise label's members
\* form a clique of the tablemate graph; noise is never checked, so the
\* all-noise labelling is valid; with edges 1-2 and 2-3 only, (0,0,0) is
\* invalid and (0,0,1) is valid.
C2_ValidatorIsCliqueCheck ==
    /\ pc = "called" =>
          /\ IsTablingAllowable(tabling, allowable_tablemates_lists)
                 <=> IsCliqueLabelling(tabling, allowable_tablemates_lists)
          /\ IsTablingAllowable([a \in attendees |-> NOISE],
                                allowable_tablemates_lists)
    /\ (pc = "called" /\ allowable_tablemates_lists = PathGraph) =>
          /\ ~IsTablingAllowable(<<0, 0, 0>>, allowable_tablemates_lists)
          /\ IsTablingAllowable(<<0, 0, 1>>, allowable_tablemates_lists)
          /\ IsTablingAllowable(<<NOISE, NOISE, NOISE>>,
                                allowable_tablemates_lists)

\* the primitive put the three attendees of the path graph at one table
C2_Witness ==
    /\ pc = "called"
    /\ allowable_tablemates_lists = PathGraph
    /\ tabling = <<0, 0, 0>>

\* C3: a guest is in an attendee's list iff its distance to the attendee is
\* strictly less than d (a guest at distance exactly d is left out); for
\* attendees at 0, 1, 2, 10 and guests at 0.5, 1.5, 9.5 with d = 1 the lists
\* are {R1}, {R1,R2}, {R2}, {R3}.
C3_GuestListsStrictlyWithinD ==
    pc = "searching" =>
        /\ DOMAIN guest_lists = DOMAIN collection_frame
        /\ \A a \in DOMAIN collection_frame : \A g \in DOMAIN reference_frame :
               g \in guest_lists[a] <=> Near(a, g)
        /\ (/\ collection_frame = <<0, 2, 4, 20>>
            /\ reference_frame = <<1, 3, 19>>
            /\ d = 2)
               => guest_lists = <<{1}, {1, 2}, {2}, {3}>>

\* one guest sits exactly at distance d and is left out, another is nearer
C3_Witness ==
    /\ pc = "searching"
    /\ d > 0
    /\ \E a \in DOMAIN collection_frame : \E g, h \in DOMAIN reference_frame :
           /\ collection_frame[a] - reference_frame[g] = d
           /\ g \notin guest_lists[a]
           /\ h \in guest_lists[a]

\* C4: j is a tablemate of i iff i # j and their guest sets intersect; the
\* adjacency is symmetric and has no self-loop.
C4_TablematesSymmetricNoSelf ==
    pc = "searching" =>
        \A i, j \in DOMAIN collection_frame :
            /\ j \in allowable_tablemates_lists[i]
                   <=> (i # j /\ (guest_lists[i] \cap guest_lists[j]) # {})
            /\ j \in allowable_tablemates_lists[i]
                   <=> i \in allowable_tablemates_lists[j]
            /\ i \notin allowable_tablemates_lists[i]

\* an attendee with guests and a tablemate, and another that is not one
C4_Witness ==
    /\ pc = "searching"
    /\ \E i, j, k \in DOMAIN collection_frame :
           /\ guest_lists[i] # {}
           /\ j \in allowable_tablemates_lists[i]
           /\ k # i
           /\ guest_lists[k] # {}
           /\ k \notin allowable_tablemates_lists[i]

\* C5: lonely (no guest), outsider (guests, no tablemate) and clustered
\* (the rest) are pairwise disjoint and cover the collection.
C5_ClassificationIsPartition ==
    pc = "searching" =>
        /\ lonelies = {a \in DOMAIN collection_frame : guest_lists[a] = {}}
        /\ outsiders = {a \in DOMAIN collection_frame :
                           /\ guest_lists[a] # {}
                           /\ allowable_tablemates_lists[a] = {}}
        /\ lonelies \cap outsiders = {}
        /\ lonelies \cap attendees = {}
        /\ outsiders \cap attendees = {}
        /\ lonelies \cup outsiders \cup attendees = DOMAIN collection_frame

\* all three classes are inhabited
C5_Witness ==
    /\ pc = "searching"
    /\ lonelies # {}
    /\ outsiders # {}
    /\ attendees # {}

\* C6: the returned Tabling labels every id once: lonelies 'lonely',
\* outsiders 'outsider', and every clustered id the label the accepted call
\* of the primitive gave it.
C6_ReturnedLabels ==
    pc = "done" =>
        /\ DOMAIN tabling_with_lonelies_and_outsiders = DOMAIN collection_frame
        /\ DOMAIN tabling = attendees
        /\ \A a \in DOMAIN collection_frame :
               /\ a \in lonelies
                      => tabling_with_lonelies_and_outsiders[a] = Lonely
               /\ a \in outsiders
                      => tabling_with_lonelies_and_outsiders[a] = Outsider
               /\ a \in attendees
                      => /\ tabling_with_lonelies_and_outsiders[a].kind = "int"
                         /\ tabling_with_lonelies_and_outsiders[a].id = tabling[a]
                         /\ tabling[a] \in prim.labels
               /\ tabling_with_lonelies_and_outsiders[a].kind = "int"
                      => a \in attendees

\* a returned Tabling with a lonely, an outsider, a noise and a table label
C6_Witness ==
    /\ pc = "done"
    /\ lonelies # {}
    /\ \E a, b \in attendees : tabling[a] = NOISE /\ tabling[b] = 0

\* what the validator says of the labelling of the last call
Valid == IsTablingAllowable(tabling, allowable_tablemates_lists)

C7_Radii ==
    /\ \A i \in 1 .. Len(radii) : radii[i] = eps0 - (i - 1) * eps_increment
    /\ pc = "start" => (radii = <<>> /\ eps = eps0)
    /\ pc = "searching" => eps = eps0 - Len(radii) * eps_increment
    /\ pc \in {"called", "accepted", "done"} =>
           (Len(radii) >= 1 /\ eps = radii[Len(radii)])
    /\ pc \in {"accepted", "done"} => Valid

C7_Step ==
    /\ radii' # radii => (pc = "searching" /\ radii' = Append(radii, eps))
    /\ pc' = "searching" =>
           \/ pc = "searching"
           \/ pc = "start" /\ eps' = eps
           \/ pc = "called" /\ ~Valid /\ eps' = eps - eps_increment
    /\ eps' # eps => (pc = "called" /\ ~Valid)
    /\ (pc = "called" /\ Valid) =>
           (pc' \in {"called", "accepted"} /\ tabling' = tabling)
    /\ pc \in {"accepted", "done"} =>
           (pc' \in {"accepted", "done"} /\ tabling' = tabling)

NonNoiseTables == Tables(tabling) \ {NOISE}

\* C9: a metric whose denominator is zero is 0: overlap_coefficient and
\* jaccard_index with fewer than two non-noise tables,
\* intra_table_sharing_ratio with none, noise_percentage when no id was
\* submitted to clustering.
C9_ZeroDenominatorIsZero ==
    pc = "done" =>
        /\ Cardinality(NonNoiseTables) < 2 =>
               /\ metrics.overlap_coefficient = Zero
               /\ metrics.jaccard_index = Zero
        /\ NonNoiseTables = {} => metrics.intra_table_sharing_ratio = Zero
        /\ attendees = {} => metrics.noise_percentage = Zero

One == [num |-> 1, den |-> 1]

MinusOne == [num |-> -1, den |-> 1]

InUnit(x) == RatLeq(Zero, x) /\ RatLeq(x, One)

\* C10: every ratio metric of the returned record lies in [0, 1] and
\* guest_sharing_differential in [-1, 1].
C10_MetricsInRange ==
    pc = "done" =>
        /\ InUnit(metrics.tableable_percentage)
        /\ InUnit(metrics.noise_percentage)
        /\ InUnit(metrics.intra_table_sharing_ratio)
        /\ InUnit(metrics.inter_table_sharing_ratio)
        /\ InUnit(metrics.overlap_coefficient)
        /\ InUnit(metrics.jaccard_index)
        /\ InUnit(metrics.unique_vs_shared_guests)
        /\ RatLeq(MinusOne, metrics.guest_sharing_differential)
        /\ RatLeq(metrics.guest_sharing_differential, One)

\* C11: a threshold d <= 0 is reported at once as an input-shape error: no
\* guest relation is produced, the primitive is never called, and no
\* Tabling or metrics record is returned.
C11_NonPositiveThresholdRejected ==
    d <= 0 =>
        /\ pc = "start"
        /\ guest_lists = None
        /\ radii = <<>>
        /\ tabling_with_lonelies_and_outsiders = None
        /\ metrics = None

\* the guests of the members of table i, from the positions
GuestsOfTable(i) ==
    {g \in DOMAIN reference_frame :
        \E a \in DOMAIN tabling : tabling[a] = i /\ Near(a, g)}

\* the pairs of distinct tables, each once
OrderedTablePairs ==
    {q \in NonNoiseTables \X NonNoiseTables : q[1] < q[2]}

PairOverlap(q) ==
    LET A == GuestsOfTable(q[1])
        B == GuestsOfTable(q[2])
        smaller == IF Cardinality(A) < Cardinality(B)
                   THEN Cardinality(A) ELSE Cardinality(B)
    IN  Rat(Cardinality(A \cap B), smaller)

PairJaccard(q) ==
    LET A == GuestsOfTable(q[1])
        B == GuestsOfTable(q[2])
    IN  Rat(Cardinality(A \cap B), Cardinality(A \cup B))

MeanOverPairs(f) == RatDivInt(RatSum(f), Cardinality(OrderedTablePairs))

Flagged(c, i) ==
    /\ i - 1 \in DOMAIN mf
    /\ mf[i][c].den = 1
    /\ mf[i - 1][c].den = 1
    /\ mf[i][c].num - mf[i - 1][c].num > diff_threshold.num

MetricColumnSet == {MetricColumns[k] : k \in DOMAIN MetricColumns}

\* the flags whose rounded d is v
FlagsOf(v) ==
    {f \in MetricColumnSet \X DOMAIN mf : Flagged(f[1], f[2]) /\ Round3(mf[f[2]].d) = v}

ColumnsFlagging(v) == {f[1] : f \in FlagsOf(v)}

Returned == {inflection_points[k] : k \in DOMAIN inflection_points}

\* C13 as stated: a d is returned only if more than one distinct metric
\* column flagged it, never when a single column did, and once per flag.
C13_ConfirmedByTwoColumns ==
    pc = "analysed" =>
        \A v \in Returned :
            /\ Cardinality(ColumnsFlagging(v)) > 1
            /\ Count(inflection_points, v) = Cardinality(FlagsOf(v))

\* C13 as amended: a rounded d is returned iff more than one flag, over all
\* columns and rows, has a d that rounds to it, and then once per flag;
\* when the rows' rounded d are pairwise distinct, these are flags of more
\* than one distinct column.
C13_ConfirmedByTwoFlags ==
    pc = "analysed" =>
        /\ \A i \in DOMAIN mf :
               LET v == Round3(mf[i].d)
               IN  Count(inflection_points, v)
                       = IF Cardinality(FlagsOf(v)) > 1
                         THEN Cardinality(FlagsOf(v)) ELSE 0
        /\ \A v \in Returned : \E i \in DOMAIN mf : v = Round3(mf[i].d)
        /\ (\A i, j \in DOMAIN mf :
                i # j => Round3(mf[i].d) # Round3(mf[j].d)) =>
               \A v \in Returned : Cardinality(ColumnsFlagging(v)) > 1

\* one d kept with a flag from each column, another flagged once and dropped
C13_Witness ==
    /\ pc = "analysed"
    /\ \A i, j \in DOMAIN mf : i # j => Round3(mf[i].d) # Round3(mf[j].d)
    /\ \E v \in Returned : Count(inflection_points, v) = 2
    /\ \E i \in DOMAIN mf :
           /\ Cardinality(FlagsOf(Round3(mf[i].d))) = 1
           /\ Round3(mf[i].d) \notin Returned

\* C14: over the iterations of the search loop only the radius changes: the
\* arguments, the guest relation, the tablemate lists and the three sets are
\* left as they were, and every call of the primitive gets exactly the
\* clustered subset's points, never a lonely or an outsider, with
\* min_samples = 2.
C14_Calls ==
    radii # <<>> =>
        /\ DOMAIN cluster_args.points = attendees
        /\ \A a \in attendees : cluster_args.points[a] = collection_frame[a]
        /\ DOMAIN cluster_args.points \cap (lonelies \cup outsiders) = {}
        /\ cluster_args.min_samples = 2
        /\ cluster_args.eps = radii[Len(radii)]
        /\ lonelies = {a \in DOMAIN collection_frame : GuestsOf(a) = {}}
        /\ outsiders = {a \in DOMAIN collection_frame :
                           /\ GuestsOf(a) # {}
                           /\ \A b \in DOMAIN collection_frame :
                                  b # a => GuestsOf(a) \cap GuestsOf(b) = {}}

C14_Frame ==
    /\ <<collection_frame, reference_frame, d, eps0, eps_increment>>'
           = <<collection_frame, reference_frame, d, eps0, eps_increment>>
    /\ pc # "start" => prepared' = prepared

C14_OnlyTheRadiusChanges == []C14_Calls /\ [][C14_Frame]_vars

\* a second call, at a smaller radius, with an id left out of the clustering
C14_Witness ==
    /\ pc = "called"
    /\ Len(radii) >= 2
    /\ radii[2] < radii[1]
    /\ attendees # {}
    /\ lonelies \cup outsiders # {}

====
